---------------------------- MODULE Spec2Model ----------------------------
(***************************************************************************)
(* Tertestrial: the trigger-matching and templating engine                 *)
(* (server-rust/src/config.rs) and the signal pipeline that feeds it       *)
(* (src/fifo.rs, src/ctrl_c.rs).                                           *)
(*                                                                         *)
(* Strings are sequences of one-character strings, so that templating and  *)
(* pattern matching work on the text itself.  An Option<T> is a sequence   *)
(* of length 0 (None) or 1 (Some(x)).                                      *)
(***************************************************************************)
EXTENDS Integers, Sequences, FiniteSets, TLC

VARIABLES
    actions,     \* Configuration.actions: the ordered rule table
    tplPieces,   \* history: the pieces the resolved action's run template was written from
    trigger,     \* Option: the last query trigger handed to get_command
    result,      \* the outcome of the last get_command call
    crashed,     \* TRUE once a panic has unwound the thread that resolves triggers
    rep,         \* one call of replace: its arguments and its return value
    written,     \* history: the lines the writers have written to the pipe
    writer,      \* the writer's end of the pipe: "idle", "opening" or "open"
    pipeBuf,     \* the lines in the pipe that no read has fetched yet
    listener,    \* the listener thread: "Opening", "Reading" or "Panicked"
    bufReader,   \* the lines the listener's BufReader has fetched and not yet yielded
    channel,     \* the mpsc queue of Signals
    sent,        \* history: every Signal a send has enqueued
    dispatched,  \* the lines the consumer has taken from the channel
    consumer,    \* the consumer: "running", "stopped" (receiver dropped) or "exited"
    handler,     \* the Ctrl-C handler thread: "installed" or "panicked"
    interrupts,  \* the process interrupts so far
    opens,       \* history: the number of lines written by the first and by the
                 \* second return of Pipe::open
    dir,         \* the names of the files in the pipe's directory
    ops,         \* history: the calls of Pipe::create and Pipe::delete so far
    pipeFailed   \* TRUE once an expect in create or delete has panicked

cfgVars == <<actions, tplPieces, trigger, result, crashed>>
fsVars == <<dir, ops, pipeFailed>>
pipeVars == <<written, writer, pipeBuf, listener, bufReader, channel, sent,
              dispatched, consumer, handler, interrupts, opens>>
vars == <<actions, tplPieces, trigger, result, crashed, rep, written, writer, pipeBuf,
          listener, bufReader, channel, sent, dispatched, consumer, handler, interrupts,
          opens, dir, ops, pipeFailed>>

----------------------------------------------------------------------------
(* Bounds *)

\* Longest configured action list.
MaxActions == 3
\* Most lines written to the pipe.
MaxWrites == 3
\* Most process interrupts.
MaxInterrupts == 2
\* Longest run template handed to format_run, in pieces.
MaxPieces == 2
\* Longest text handed to replace, in pieces.
MaxReplacePieces == 3
\* Most calls of Pipe::create and Pipe::delete.
MaxOps == 8

----------------------------------------------------------------------------
(* Strings *)

None == <<>>
Some(x) == <<x>>

s_command == <<"c","o","m","m","a","n","d">>
s_file == <<"f","i","l","e">>
s_line == <<"l","i","n","e">>
s_name == <<"n","a","m","e">>
s_unknown == <<"u","n","k","n","o","w","n">>

s_testFile == <<"t","e","s","t","F","i","l","e">>
s_testFunction == <<"t","e","s","t","F","u","n","c","t","i","o","n">>

s_filename == <<"f","i","l","e","n","a","m","e">>
s_other_filename == <<"o","t","h","e","r"," ","f","i","l","e","n","a","m","e">>
s_foo_test_rs == <<"f","o","o","_","t","e","s","t",".","r","s">>
s_main_rs == <<"m","a","i","n",".","r","s">>

s_open == <<"{","{">>
s_close == <<"}","}">>

\* The text s starts at index i of text.
HasAt(text, i, s) ==
    /\ i >= 1
    /\ i + Len(s) - 1 <= Len(text)
    /\ \A k \in 1..Len(s) : text[i + k - 1] = s[k]

\* Concatenation of a sequence of strings.
RECURSIVE Flatten(_)
Flatten(ss) == IF ss = <<>> THEN <<>> ELSE Head(ss) \o Flatten(Tail(ss))

\* u32::to_string: the decimal digits of n, most significant first.
Digit(d) == <<"0","1","2","3","4","5","6","7","8","9">>[d + 1]

RECURSIVE to_string(_)
to_string(n) == IF n < 10 THEN <<Digit(n)>> ELSE to_string(n \div 10) \o <<Digit(n % 10)>>

----------------------------------------------------------------------------
(* replace: regex \{\{\s*PLACEHOLDER\s*\}\}, replace_all with NoExpand.    *)
(* Placeholder names are identifiers (command, file, line, name): the      *)
(* regex takes each of their characters literally.                         *)

IsWhitespace(c) == c \in {" ", "\t"}

\* \s* is greedy: the first index at or after i that holds no whitespace.
RECURSIVE SkipWhitespace(_, _)
SkipWhitespace(text, i) ==
    IF i <= Len(text) /\ IsWhitespace(text[i]) THEN SkipWhitespace(text, i + 1) ELSE i

\* The index just behind a match of the placeholder's regex that starts at i; 0 when
\* none starts there.
PlaceholderEnd(text, i, placeholder) ==
    IF ~HasAt(text, i, s_open) THEN 0
    ELSE LET j == SkipWhitespace(text, i + 2) IN
         IF ~HasAt(text, j, placeholder) THEN 0
         ELSE LET k == SkipWhitespace(text, j + Len(placeholder)) IN
              IF HasAt(text, k, s_close) THEN k + 2 ELSE 0

\* replace_all: leftmost non-overlapping matches, each replaced by the literal
\* replacement text; replaced text is not scanned again.
RECURSIVE ReplaceFrom(_, _, _, _)
ReplaceFrom(text, i, placeholder, replacement) ==
    IF i > Len(text) THEN <<>>
    ELSE LET e == PlaceholderEnd(text, i, placeholder) IN
         IF e > 0 THEN replacement \o ReplaceFrom(text, e, placeholder, replacement)
         ELSE <<text[i]>> \o ReplaceFrom(text, i + 1, placeholder, replacement)

\* Mutant: Regex::replace in place of replace_all, only the first match is replaced.
RECURSIVE ReplaceFirstFrom(_, _, _, _)
ReplaceFirstFrom(text, i, placeholder, replacement) ==
    IF i > Len(text) THEN <<>>
    ELSE LET e == PlaceholderEnd(text, i, placeholder) IN
         IF e > 0 THEN replacement \o SubSeq(text, e, Len(text))
         ELSE <<text[i]>> \o ReplaceFirstFrom(text, i + 1, placeholder, replacement)

replace_first(text, placeholder, replacement) ==
    ReplaceFirstFrom(text, 1, placeholder, replacement)

replace(text, placeholder, replacement) == ReplaceFrom(text, 1, placeholder, replacement)

----------------------------------------------------------------------------
(* The value mapping of format_run: a HashMap<&str, String> *)

EmptyMap == [k \in {} |-> <<>>]

\* HashMap::insert: a later insert under a known key overwrites the value.
Insert(values, k, v) ==
    [x \in (DOMAIN values) \cup {k} |-> IF x = k THEN v ELSE values[x]]

\* The orders in which iterating over a HashMap with these keys may visit them.
Orders(keys) ==
    {o \in [1..Cardinality(keys) -> keys] :
        \A i, j \in 1..Cardinality(keys) : i # j => o[i] # o[j]}

----------------------------------------------------------------------------
(* Outcomes of a call: a returned Ok, a returned Err(UserErr), or a panic *)

Ok(s) ==
    [kind |-> "Ok", text |-> s, msg |-> "", captures |-> 0, trigger |-> None, hint |-> ""]

\* UserErr::new(format!("found {} captures", n), hint)
ErrCaptures(n) ==
    [kind |-> "Err", text |-> <<>>, msg |-> "found {} captures", captures |-> n,
     trigger |-> None,
     hint |-> "filters in the Tertestrial configuration file can only contain one capture group"]

\* UserErr::new(format!("cannot determine command for trigger: {}", trigger), hint)
ErrNoCommand(q) ==
    [kind |-> "Err", text |-> <<>>, msg |-> "cannot determine command for trigger: {}",
     captures |-> 0, trigger |-> Some(q),
     hint |-> "Please make sure that this trigger is listed in your configuration file"]

\* unwrap() on None, or panic!("implement"): the calling thread unwinds.
Panic(why) ==
    [kind |-> "Panic", text |-> <<>>, msg |-> why, captures |-> 0, trigger |-> None, hint |-> ""]

\* The UserErr the match test returns for a pattern it cannot evaluate.
ErrPattern ==
    [kind |-> "Err", text |-> <<>>, msg |-> "cannot match trigger", captures |-> 0,
     trigger |-> None, hint |-> ""]

NoResult ==
    [kind |-> "None", text |-> <<>>, msg |-> "", captures |-> 0, trigger |-> None, hint |-> ""]

----------------------------------------------------------------------------
\* Var filters.  A filter is a sequence of items, each a literal text or a capture
\* group that matches any text (dot-star in parentheses); it stands for the regex
\* that concatenates them.

Lit(s) == [group |-> FALSE, lit |-> s]
Group == [group |-> TRUE, lit |-> <<>>]

\* Captures::len: the groups of the regex plus the whole match, whatever took part.
captures_len(filter) == 1 + Cardinality({i \in 1..Len(filter) : filter[i].group})

\* A match of items that starts at pos: Some(the groups' texts) or None.  A group is
\* greedy: it takes the longest text that lets the rest match.
RECURSIVE MatchItems(_, _, _)
RECURSIVE GroupUpTo(_, _, _, _)
MatchItems(items, text, pos) ==
    IF items = <<>> THEN Some(<<>>)
    ELSE IF Head(items).group THEN GroupUpTo(Tail(items), text, pos, Len(text) + 1)
    ELSE IF HasAt(text, pos, Head(items).lit)
         THEN MatchItems(Tail(items), text, pos + Len(Head(items).lit))
         ELSE None

GroupUpTo(rest, text, pos, k) ==
    IF k < pos THEN None
    ELSE LET m == MatchItems(rest, text, k) IN
         IF m # None THEN Some(<<SubSeq(text, pos, k - 1)>> \o m[1])
         ELSE GroupUpTo(rest, text, pos, k - 1)

RECURSIVE SearchFrom(_, _, _)
SearchFrom(filter, text, start) ==
    IF start > Len(text) + 1 THEN None
    ELSE LET m == MatchItems(filter, text, start) IN
         IF m # None THEN m ELSE SearchFrom(filter, text, start + 1)

\* Regex::captures: the leftmost match anywhere in text, or None.
captures(filter, text) == SearchFrom(filter, text, 1)

----------------------------------------------------------------------------
(* calculate_var *)

calculate_var(var, values) ==
    CASE var.source = "File" ->
            IF s_file \notin DOMAIN values THEN Panic("values.get(file).unwrap()")
            ELSE LET caps == captures(var.filter, values[s_file]) IN
                 IF caps = None THEN Panic("re.captures(text).unwrap()")
                 ELSE IF captures_len(var.filter) # 2
                      THEN ErrCaptures(captures_len(var.filter))
                      ELSE Ok(caps[1][1])
      [] var.source = "Line" -> Panic("implement")
      [] var.source = "CurrentOrAboveLineContent" -> Panic("implement")

----------------------------------------------------------------------------
(* Configuration::format_run *)

\* The values seeded from the query trigger.
TriggerValues(q) ==
    LET v1 == Insert(EmptyMap, s_command, q.command)
        v2 == IF q.file # None THEN Insert(v1, s_file, q.file[1]) ELSE v1
    IN  IF q.line # None THEN Insert(v2, s_line, to_string(q.line[1])) ELSE v2

\* The loop over action.vars: each var is inserted under its name; the first failing
\* calculate_var ends the loop (the ? operator).
RECURSIVE InsertVars(_, _)
InsertVars(varlist, values) ==
    IF varlist = <<>> THEN [failed |-> None, values |-> values]
    ELSE LET r == calculate_var(Head(varlist), values) IN
         IF r.kind # "Ok" THEN [failed |-> Some(r), values |-> values]
         ELSE InsertVars(Tail(varlist), Insert(values, Head(varlist).name, r.text))

\* The loop over the value mapping, visiting its keys in the order o.
RECURSIVE ReplaceAll(_, _, _)
ReplaceAll(text, values, o) ==
    IF o = <<>> THEN text
    ELSE ReplaceAll(replace(text, Head(o), values[Head(o)]), values, Tail(o))

\* Mutant: a placeholder left in the output is reported as an error.
format_run_strict(action, q) ==
    LET vs == InsertVars(IF action.vars # None THEN action.vars[1] ELSE <<>>,
                         TriggerValues(q))
        done(o) == ReplaceAll(action.run, vs.values, o)
    IN  IF vs.failed # None THEN {vs.failed[1]}
        ELSE {IF \E i \in 1..Len(done(o)) : HasAt(done(o), i, s_open)
              THEN ErrNoCommand(q) ELSE Ok(done(o)) : o \in Orders(DOMAIN vs.values)}

\* The outcomes format_run can have: one per iteration order of the HashMap.
format_run(action, q) ==
    LET vs == InsertVars(IF action.vars # None THEN action.vars[1] ELSE <<>>,
                         TriggerValues(q))
    IN  IF vs.failed # None THEN {vs.failed[1]}
        ELSE {Ok(ReplaceAll(action.run, vs.values, o)) : o \in Orders(DOMAIN vs.values)}

----------------------------------------------------------------------------
(* Trigger::matches_client_trigger *)

\* The match test returns a Result: Ok(true) or Ok(false) by the rule on the fields,
\* or an Err for a pattern it cannot evaluate, here a file pattern that is an
\* unclosed group.
s_unclosed == <<"(">>

matches_client_trigger(pattern, q) ==
    IF pattern.file = Some(s_unclosed)
    THEN [err |-> Some(ErrPattern), value |-> FALSE]
    ELSE [err |-> None,
          value |-> /\ pattern.command = q.command
                    /\ (pattern.file # None => q.file = pattern.file)
                    /\ (pattern.line # None => q.line = pattern.line)]

----------------------------------------------------------------------------
(* Configuration::get_command *)

\* Mutant: the scan keeps going after a match, so the last matching action wins.
RECURSIVE ScanLastWins(_, _, _, _)
ScanLastWins(as, i, q, found) ==
    IF i > Len(as) THEN found
    ELSE IF matches_client_trigger(as[i].trigger, q).value
         THEN ScanLastWins(as, i + 1, q, format_run(as[i], q))
         ELSE ScanLastWins(as, i + 1, q, found)

get_command_last_wins(as, q) == ScanLastWins(as, 1, q, {ErrNoCommand(q)})

\* Mutant: only the first action is examined.
get_command_first_only(as, q) ==
    IF as # <<>> /\ matches_client_trigger(as[1].trigger, q).value
    THEN format_run(as[1], q)
    ELSE {ErrNoCommand(q)}

\* Mutant: a match whose variables fail is reported as an unmatched trigger.
RECURSIVE ScanHidingErrors(_, _, _)
ScanHidingErrors(as, i, q) ==
    IF i > Len(as) THEN {ErrNoCommand(q)}
    ELSE IF matches_client_trigger(as[i].trigger, q).value
         THEN {IF r.kind = "Err" THEN ErrNoCommand(q) ELSE r : r \in format_run(as[i], q)}
         ELSE ScanHidingErrors(as, i + 1, q)

get_command_hiding_errors(as, q) == ScanHidingErrors(as, 1, q)

\* Mutant: an action whose match test or whose variables fail is skipped, and the
\* scan goes on to the later actions.
RECURSIVE ScanFallingThrough(_, _, _)
ScanFallingThrough(as, i, q) ==
    IF i > Len(as) THEN {ErrNoCommand(q)}
    ELSE LET m == matches_client_trigger(as[i].trigger, q) IN
         IF m.err = None /\ m.value /\ \A r \in format_run(as[i], q) : r.kind = "Ok"
         THEN format_run(as[i], q)
         ELSE ScanFallingThrough(as, i + 1, q)

get_command_falling_through(as, q) == ScanFallingThrough(as, 1, q)

RECURSIVE ScanActions(_, _, _)
ScanActions(as, i, q) ==
    IF i > Len(as) THEN {ErrNoCommand(q)}
    ELSE LET m == matches_client_trigger(as[i].trigger, q) IN
         IF m.err # None THEN {m.err[1]}
         ELSE IF m.value THEN format_run(as[i], q)
         ELSE ScanActions(as, i + 1, q)

\* The outcomes get_command can have for this configuration and query.
get_command(as, q) == ScanActions(as, 1, q)

----------------------------------------------------------------------------
(* Resolving triggers: the caller of get_command *)

Trigger(c, f, l) == [command |-> c, file |-> f, line |-> l]
Action(t, r, v) == [trigger |-> t, run |-> r, vars |-> v]
Var(n, s, f) == [name |-> n, source |-> s, filter |-> f]

\* The sequences over S of length 0..n.
SeqsUpTo(S, n) == UNION {[1..k -> S] : k \in 0..n}

\* One trigger arrives and is resolved.  A panic inside get_command unwinds the
\* resolving thread: no later trigger is resolved.
Resolve(q) ==
    /\ ~crashed
    /\ \E r \in get_command(actions, q) :
          /\ result' = r
          /\ crashed' = (r.kind = "Panic")
    /\ trigger' = Some(q)
    /\ UNCHANGED <<actions, tplPieces, rep>>
    /\ UNCHANGED pipeVars
    /\ UNCHANGED fsVars

\* in_dir: the pipe is the file foo.pipe of its directory.
filepath == "foo.pipe"

\* The signal pipeline before anything has happened.
PipeInit ==
    /\ written = <<>>
    /\ writer = "idle"
    /\ pipeBuf = <<>>
    /\ listener = "Opening"
    /\ bufReader = <<>>
    /\ channel = <<>>
    /\ sent = <<>>
    /\ dispatched = <<>>
    /\ consumer = "running"
    /\ handler = "installed"
    /\ interrupts = 0
    /\ opens = <<>>

\* The pipe's directory once the pipe has been created in it.
PipeCreated ==
    /\ dir = {filepath}
    /\ ops = <<"create">>
    /\ pipeFailed = FALSE

NoReplace == [text |-> <<>>, placeholder |-> <<>>, replacement |-> <<>>, out |-> None]

----------------------------------------------------------------------------
(* SpecMatch: get_command on rule tables of up to MaxActions actions.      *)
(* get_command only reads the configuration, so a behaviour is one call.   *)

PatternLines == {None, Some(1), Some(2), Some(3)}
PatternFiles == {None, Some(s_filename)}
QueryFiles == {None, Some(s_filename), Some(s_other_filename)}

MatchPatterns == {Trigger(s_testFunction, f, l) : f \in PatternFiles, l \in PatternLines}
MatchQueries ==
    {Trigger(s_testFunction, f, l) : f \in QueryFiles, l \in PatternLines}
        \cup {Trigger(s_testFile, None, None)}

\* As in the tests ("action1 command"), a run names its action's pattern: "a", the
\* pattern's line, "f" when it has a file, and then " {{line}}".
s_action == <<"a">>
s_line_placeholder == <<" ","{","{","l","i","n","e","}","}">>
Label(t) ==
    (IF t.line # None THEN to_string(t.line[1]) ELSE <<>>)
        \o (IF t.file # None THEN <<"f">> ELSE <<>>)
RunOf(t) == s_action \o Label(t) \o s_line_placeholder

\* "{{name}}" with a File var whose filter has two capture groups around an "n".
r_name == <<"{","{","n","a","m","e","}","}">>
f_two_groups == <<Group, Lit(<<"n">>), Group>>
TwoGroupVars == Some(<<Var(s_name, "File", f_two_groups)>>)

\* Every pattern with its labelled run, and the patterns without a line or with
\* line 2 also with the var.
MatchActions ==
    {Action(t, RunOf(t), Some(<<>>)) : t \in MatchPatterns}
        \cup {Action(t, r_name, TwoGroupVars) :
                 t \in {p \in MatchPatterns : p.line \in {None, Some(2)}}}

InitMatch ==
    /\ actions \in SeqsUpTo(MatchActions, MaxActions)
    /\ tplPieces = <<>>
    /\ trigger = None
    /\ result = NoResult
    /\ crashed = FALSE
    /\ rep = NoReplace
    /\ PipeInit
    /\ PipeCreated

NextMatch == trigger = None /\ \E q \in MatchQueries : Resolve(q)

SpecMatch == InitMatch /\ [][NextMatch]_vars

----------------------------------------------------------------------------
(* Claims on get_command, under SpecMatch *)

\* The actions whose pattern matches the query.
Matching(as, q) ==
    {i \in 1..Len(as) : matches_client_trigger(as[i].trigger, q).value}

Min(S) == CHOOSE x \in S : \A y \in S : x <= y

FieldMatches(p, f) == p = None \/ (f # None /\ f[1] = p[1])
RuleMatches(pattern, q) ==
    /\ pattern.command = q.command
    /\ FieldMatches(pattern.file, q.file)
    /\ FieldMatches(pattern.line, q.line)

\* The actions differ only in the line of their pattern (and so in the label of
\* their run): same command, same file, plain runs.
DifferOnlyInLine(as) ==
    /\ Len(as) >= 2
    /\ \A i \in 1..Len(as) :
          /\ as[i].trigger.line # None
          /\ as[i].trigger.file = as[1].trigger.file
          /\ as[i].run = RunOf(as[i].trigger)
    /\ \A i, j \in 1..Len(as) : i # j => as[i].trigger.line # as[j].trigger.line

----------------------------------------------------------------------------
(* SpecFormat: format_run on one action that matches every query; triggers *)
(* keep arriving until a panic stops the resolving thread.                 *)

\* A piece of a template: a placeholder for a name (ph is Some(name)) or literal text.
Piece(ph, text) == [ph |-> ph, text |-> text]
TextOf(ps) == Flatten([i \in 1..Len(ps) |-> ps[i].text])

p_file == Piece(Some(s_file), <<"{","{","f","i","l","e","}","}">>)
p_line_padded == Piece(Some(s_line), <<"{","{"," ","l","i","n","e"," ","}","}">>)
p_name == Piece(Some(s_name), r_name)
p_unknown == Piece(Some(s_unknown), <<"{","{","u","n","k","n","o","w","n","}","}">>)
p_echo == Piece(None, <<"e","c","h","o"," ">>)

FormatPieces == {p_file, p_line_padded, p_name, p_unknown, p_echo}

\* Filters with zero, one and two capture groups, written _test, (.*)_test and
\* (.*)_(.*) in the configuration file.
s__test == <<"_","t","e","s","t">>
f_zero_groups == <<Lit(s__test)>>
f_one_group == <<Group, Lit(s__test)>>
f_under_groups == <<Group, Lit(<<"_">>), Group>>

VarSources == {"File", "Line", "CurrentOrAboveLineContent"}
FormatVars ==
    {Var(s_name, src, f) : src \in VarSources,
                           f \in {f_zero_groups, f_one_group, f_under_groups}}
FormatVarLists == {None, Some(<<>>)} \cup {Some(<<v>>) : v \in FormatVars}

\* A file whose name is the placeholder of the line.
s_line_token == <<"{","{","l","i","n","e","}","}">>
FormatFiles == {None, Some(s_foo_test_rs), Some(s_main_rs), Some(s_line_token)}
FormatLines == {None, Some(12)}
FormatQueries == {Trigger(s_testFunction, f, l) : f \in FormatFiles, l \in FormatLines}

InitFormat ==
    /\ \E ps \in SeqsUpTo(FormatPieces, MaxPieces), v \in FormatVarLists :
          /\ actions = <<Action(Trigger(s_testFunction, None, None), TextOf(ps), v)>>
          /\ tplPieces = ps
    /\ trigger = None
    /\ result = NoResult
    /\ crashed = FALSE
    /\ rep = NoReplace
    /\ PipeInit
    /\ PipeCreated

NextFormat == \E q \in FormatQueries : Resolve(q)

SpecFormat == InitFormat /\ [][NextFormat]_vars

----------------------------------------------------------------------------
(* SpecReplace: one call of replace on a text written from pieces *)

p_file_padded == Piece(Some(s_file), <<"{","{"," ","f","i","l","e"," ","}","}">>)
p_hello == Piece(None, <<"h","e","l","l","o"," ">>)
p_brace == Piece(None, <<"{">>)

ReplacePieces == {p_file, p_file_padded, p_name, p_hello, p_brace}
ReplacePlaceholders == {s_file, s_name}
\* A plain word, a text that is itself a placeholder, and a regex group reference.
Replacements == {<<"b","y","e">>, p_file.text, <<"$","1">>}

InitReplace ==
    /\ \E ps \in SeqsUpTo(ReplacePieces, MaxReplacePieces) :
          /\ tplPieces = ps
          /\ rep = [NoReplace EXCEPT !.text = TextOf(ps)]
    /\ actions = <<>>
    /\ trigger = None
    /\ result = NoResult
    /\ crashed = FALSE
    /\ PipeInit
    /\ PipeCreated

ApplyReplace(placeholder, replacement) ==
    /\ rep.out = None
    /\ rep' = [rep EXCEPT !.placeholder = placeholder,
                          !.replacement = replacement,
                          !.out = Some(replace(rep.text, placeholder, replacement))]
    /\ UNCHANGED cfgVars
    /\ UNCHANGED pipeVars
    /\ UNCHANGED fsVars

NextReplace == \E p \in ReplacePlaceholders, r \in Replacements : ApplyReplace(p, r)

SpecReplace == InitReplace /\ [][NextReplace]_vars

----------------------------------------------------------------------------
(* Claim on replace, under SpecReplace *)

\* The text written from the pieces with every placeholder piece for the name
\* replaced by the value, and every other piece as written.
Substituted(ps, name, value) ==
    Flatten([i \in 1..Len(ps) |-> IF ps[i].ph = Some(name) THEN value ELSE ps[i].text])

\* C5: replace puts the replacement in the place of every occurrence of the
\* placeholder, the tight form {{x}} and the padded form {{ x }} alike, and leaves
\* the rest of the text, the replacement's own text included, as it is.
C5_EveryOccurrenceReplaced ==
    rep.out # None =>
        rep.out[1] = Substituted(tplPieces, rep.placeholder, rep.replacement)

\* The placeholder occurs twice, once tight and once padded, and has been replaced.
C5_Witness ==
    /\ rep.out # None
    /\ rep.placeholder = s_file
    /\ \E i, j \in 1..Len(tplPieces) :
          /\ i < j
          /\ tplPieces[i] = p_file_padded
          /\ tplPieces[j] = p_file

----------------------------------------------------------------------------
(* Claims on format_run and calculate_var, under SpecFormat *)

\* The vars the action declares.
VarsOf(action) == IF action.vars # None THEN action.vars[1] ELSE <<>>

\* No value of the mapping holds a brace.
BraceFree(values) ==
    \A k \in DOMAIN values : \A i \in 1..Len(values[k]) : values[k][i] \notin {"{", "}"}

\* The text written from the pieces with every placeholder piece whose name is in
\* the mapping replaced by its value, and every other piece as written.
Expected(ps, values) ==
    Flatten([i \in 1..Len(ps) |->
                IF ps[i].ph # None /\ ps[i].ph[1] \in DOMAIN values
                THEN values[ps[i].ph[1]] ELSE ps[i].text])

\* C6: a placeholder whose name is not in the value mapping stays in the output as
\* written, while the placeholders with a mapped name are replaced as they are
\* without it; and format_run fails only when a variable fails, never because of a
\* placeholder.
C6_UnknownPlaceholderKept ==
    trigger # None =>
        LET vs == InsertVars(VarsOf(actions[1]), TriggerValues(trigger[1])) IN
        /\ (result.kind = "Ok") <=> (vs.failed = None)
        /\ (result.kind = "Ok" /\ BraceFree(vs.values))
              => result.text = Expected(tplPieces, vs.values)

\* The template holds {{unknown}} and {{file}}; the query has a file.
C6_Witness ==
    /\ trigger # None
    /\ result.kind = "Ok"
    /\ trigger[1].file # None
    /\ \E i, j \in 1..Len(tplPieces) : tplPieces[i] = p_unknown /\ tplPieces[j] = p_file

\* C7 as stated: with a file in the query, a File var whose filter has one capture
\* group and matches gives the captured text, and a filter with another number of
\* groups gives the capture-count error, whether or not it matches.
C7_CaptureCount ==
    (/\ trigger # None
     /\ trigger[1].file # None
     /\ Len(VarsOf(actions[1])) = 1
     /\ VarsOf(actions[1])[1].source = "File") =>
        LET var == VarsOf(actions[1])[1]
            caps == captures(var.filter, trigger[1].file[1])
        IN  /\ (captures_len(var.filter) = 2 /\ caps # None) => result.kind = "Ok"
            /\ captures_len(var.filter) # 2
                  => result = ErrCaptures(captures_len(var.filter))

\* C8 as stated: when the filter of a File var does not match the query's file, or
\* the query has no file, get_command returns an error and the next trigger is
\* still resolved.
C8_NoMatchIsAnError ==
    (/\ trigger # None
     /\ Len(VarsOf(actions[1])) = 1
     /\ VarsOf(actions[1])[1].source = "File"
     /\ \/ trigger[1].file = None
        \/ captures(VarsOf(actions[1])[1].filter, trigger[1].file[1]) = None) =>
        /\ result.kind = "Err"
        /\ ~crashed
        /\ \E q \in FormatQueries : ENABLED Resolve(q)

\* C9 as stated: an action with a Line or CurrentOrAboveLineContent var gives an
\* error for that resolution and the process goes on.
C9_UnsupportedIsAnError ==
    (/\ trigger # None
     /\ \E i \in 1..Len(VarsOf(actions[1])) :
           VarsOf(actions[1])[i].source \in {"Line", "CurrentOrAboveLineContent"}) =>
        /\ result.kind = "Err"
        /\ ~crashed

\* C18 as stated: the command string format_run gives is a function of the action
\* and the query: whatever the order in which the keys of the value mapping are
\* substituted, the outcome is the one that was returned.
C18_OrderIndependent ==
    trigger # None => format_run(actions[1], trigger[1]) = {result}

----------------------------------------------------------------------------
(* The signal pipeline: writers, the pipe listener thread, the Ctrl-C      *)
(* handler and the consumer, around one mpsc channel.                      *)

\* What a writer writes: lines of text, or a line of bytes that are not UTF-8.
InvalidUtf8 == "\\xff"
TextLines == {"testAll", "testFile"}
PipeLines == TextLines \cup {InvalidUtf8}

LineSignal(text) == [type |-> "Line", text |-> text]
ExitSignal == [type |-> "Exit", text |-> ""]

\* The process is alive until main returns.
Alive == consumer # "exited"

\* No step of the configuration engine or of the pipe's lifecycle is part of the
\* pipeline.
CfgIdle == UNCHANGED <<actions, tplPieces, trigger, result, crashed, rep>> /\ UNCHANGED fsVars

\* A writer starts to open the pipe for writing; the open returns once a reader
\* holds the pipe open.
WriterOpen ==
    /\ Alive
    /\ writer = "idle"
    /\ writer' = "opening"
    /\ UNCHANGED <<written, pipeBuf, listener, bufReader, channel, sent, dispatched,
                   consumer, handler, interrupts>>
    /\ UNCHANGED opens
    /\ CfgIdle

WriterConnect ==
    /\ Alive
    /\ writer = "opening"
    /\ listener = "Reading"
    /\ writer' = "open"
    /\ UNCHANGED <<written, pipeBuf, listener, bufReader, channel, sent, dispatched,
                   consumer, handler, interrupts>>
    /\ UNCHANGED opens
    /\ CfgIdle

\* A writer writes one line while the listener holds the pipe open.
WriteLine(l) ==
    /\ Alive
    /\ writer = "open"
    /\ listener = "Reading"
    /\ Len(written) < MaxWrites
    /\ written' = Append(written, l)
    /\ pipeBuf' = Append(pipeBuf, l)
    /\ UNCHANGED <<writer, listener, bufReader, channel, sent, dispatched, consumer,
                   handler, interrupts>>
    /\ UNCHANGED opens
    /\ CfgIdle

WriterClose ==
    /\ Alive
    /\ writer = "open"
    /\ writer' = "idle"
    /\ UNCHANGED <<written, pipeBuf, listener, bufReader, channel, sent, dispatched,
                   consumer, handler, interrupts>>
    /\ UNCHANGED opens
    /\ CfgIdle

\* Pipe::open in the listener's loop: File::open on the fifo returns once a writer
\* has it open or is opening it, and the lines are read through a new BufReader.
ListenOpen ==
    /\ Alive
    /\ listener = "Opening"
    /\ writer \in {"opening", "open"}
    /\ listener' = "Reading"
    /\ writer' = "open"
    /\ bufReader' = <<>>
    /\ UNCHANGED <<written, pipeBuf, channel, sent, dispatched, consumer, handler,
                   interrupts>>
    /\ opens' = IF Len(opens) < 2 THEN Append(opens, Len(written)) ELSE opens
    /\ CfgIdle

\* What the BufReader holds once it has been asked for a line: its own buffer, or,
\* when that is empty, all the pipe holds, fetched by one read.
Fetched == IF bufReader # <<>> THEN bufReader ELSE pipeBuf
PipeAfterFetch == IF bufReader # <<>> THEN pipeBuf ELSE <<>>

\* Mutant: the Ok arm sends the wrong variant, an Exit for every line read.
ListenLineAsExit ==
    /\ Alive
    /\ listener = "Reading"
    /\ Fetched # <<>>
    /\ Head(Fetched) # InvalidUtf8
    /\ pipeBuf' = PipeAfterFetch
    /\ bufReader' = Tail(Fetched)
    /\ IF consumer = "running"
       THEN /\ channel' = Append(channel, ExitSignal)
            /\ sent' = Append(sent, ExitSignal)
            /\ listener' = listener
       ELSE /\ listener' = "Panicked"
            /\ UNCHANGED <<channel, sent>>
    /\ UNCHANGED <<written, writer, dispatched, consumer, handler, interrupts>>
    /\ UNCHANGED opens
    /\ CfgIdle

\* Ok(text) => sender.send(Signal::Line(text)).unwrap()
ListenLine ==
    /\ Alive
    /\ listener = "Reading"
    /\ Fetched # <<>>
    /\ Head(Fetched) # InvalidUtf8
    /\ pipeBuf' = PipeAfterFetch
    /\ bufReader' = Tail(Fetched)
    /\ IF consumer = "running"
       THEN /\ channel' = Append(channel, LineSignal(Head(Fetched)))
            /\ sent' = Append(sent, LineSignal(Head(Fetched)))
            /\ listener' = listener
       ELSE /\ listener' = "Panicked"
            /\ UNCHANGED <<channel, sent>>
    /\ UNCHANGED <<written, writer, dispatched, consumer, handler, interrupts>>
    /\ UNCHANGED opens
    /\ CfgIdle

\* Mutant: the Err arm returns from the thread in place of break.
ListenReadErrorReturns ==
    /\ Alive
    /\ listener = "Reading"
    /\ Fetched # <<>>
    /\ Head(Fetched) = InvalidUtf8
    /\ pipeBuf' = PipeAfterFetch
    /\ bufReader' = <<>>
    /\ IF consumer = "running"
       THEN /\ channel' = Append(channel, ExitSignal)
            /\ sent' = Append(sent, ExitSignal)
            /\ listener' = "Returned"
       ELSE /\ listener' = "Panicked"
            /\ UNCHANGED <<channel, sent>>
    /\ UNCHANGED <<written, writer, dispatched, consumer, handler, interrupts>>
    /\ UNCHANGED opens
    /\ CfgIdle

\* Err(err) => sender.send(Signal::Exit).unwrap(); break: the BufReader is dropped
\* with what it holds, and the loop opens the pipe again.
ListenReadError ==
    /\ Alive
    /\ listener = "Reading"
    /\ Fetched # <<>>
    /\ Head(Fetched) = InvalidUtf8
    /\ pipeBuf' = PipeAfterFetch
    /\ bufReader' = <<>>
    /\ IF consumer = "running"
       THEN /\ channel' = Append(channel, ExitSignal)
            /\ sent' = Append(sent, ExitSignal)
            /\ listener' = "Opening"
       ELSE /\ listener' = "Panicked"
            /\ UNCHANGED <<channel, sent>>
    /\ UNCHANGED <<written, writer, dispatched, consumer, handler, interrupts>>
    /\ UNCHANGED opens
    /\ CfgIdle

\* Mutant: the end of the stream is forwarded as an Exit before the pipe is opened
\* again.
ListenEndOfStreamExit ==
    /\ Alive
    /\ listener = "Reading"
    /\ Fetched = <<>>
    /\ writer # "open"
    /\ IF consumer = "running"
       THEN /\ channel' = Append(channel, ExitSignal)
            /\ sent' = Append(sent, ExitSignal)
            /\ listener' = "Opening"
       ELSE /\ listener' = "Panicked"
            /\ UNCHANGED <<channel, sent>>
    /\ UNCHANGED <<written, writer, pipeBuf, bufReader, dispatched, consumer, handler,
                   interrupts>>
    /\ UNCHANGED opens
    /\ CfgIdle

\* Mutant: a one-shot read, the thread ends with the first read cycle.
ListenEndOfStreamOnce ==
    /\ Alive
    /\ listener = "Reading"
    /\ Fetched = <<>>
    /\ writer # "open"
    /\ listener' = "Returned"
    /\ UNCHANGED <<written, writer, pipeBuf, bufReader, channel, sent, dispatched,
                   consumer, handler, interrupts>>
    /\ UNCHANGED opens
    /\ CfgIdle

\* lines() ends: nothing is left to read and no writer holds the pipe open.  The for
\* loop is over and the outer loop opens the pipe again.
ListenEndOfStream ==
    /\ Alive
    /\ listener = "Reading"
    /\ Fetched = <<>>
    /\ writer # "open"
    /\ listener' = "Opening"
    /\ UNCHANGED <<written, writer, pipeBuf, bufReader, channel, sent, dispatched,
                   consumer, handler, interrupts>>
    /\ UNCHANGED opens
    /\ CfgIdle

listen == ListenOpen \/ ListenLine \/ ListenReadError \/ ListenEndOfStream

\* Mutant: the handler is installed but its closure sends nothing.
handle_lost ==
    /\ Alive
    /\ handler = "installed"
    /\ interrupts < MaxInterrupts
    /\ interrupts' = interrupts + 1
    /\ UNCHANGED <<written, writer, pipeBuf, listener, bufReader, channel, sent,
                   dispatched, consumer, handler, opens>>
    /\ CfgIdle

\* The closure handle installs, run on a process interrupt:
\* sender.send(Signal::Exit).unwrap()
handle ==
    /\ Alive
    /\ handler = "installed"
    /\ interrupts < MaxInterrupts
    /\ interrupts' = interrupts + 1
    /\ IF consumer = "running"
       THEN /\ channel' = Append(channel, ExitSignal)
            /\ sent' = Append(sent, ExitSignal)
            /\ handler' = handler
       ELSE /\ handler' = "panicked"
            /\ UNCHANGED <<channel, sent>>
    /\ UNCHANGED <<written, writer, pipeBuf, listener, bufReader, dispatched, consumer>>
    /\ UNCHANGED opens
    /\ CfgIdle

\* The consumer takes the next Signal: a Line is dispatched, an Exit ends its loop
\* and drops the receiver with whatever is still queued.
Receive ==
    /\ consumer = "running"
    /\ channel # <<>>
    /\ IF Head(channel).type = "Line"
       THEN /\ dispatched' = Append(dispatched, Head(channel).text)
            /\ channel' = Tail(channel)
            /\ consumer' = consumer
       ELSE /\ consumer' = "stopped"
            /\ channel' = <<>>
            /\ dispatched' = dispatched
    /\ UNCHANGED <<written, writer, pipeBuf, listener, bufReader, sent, handler,
                   interrupts>>
    /\ UNCHANGED opens
    /\ CfgIdle

\* main returns after the consumer's loop: the process and its threads end.
ProcessExit ==
    /\ consumer = "stopped"
    /\ consumer' = "exited"
    /\ UNCHANGED <<written, writer, pipeBuf, listener, bufReader, channel, sent,
                   dispatched, handler, interrupts>>
    /\ UNCHANGED opens
    /\ CfgIdle

Init ==
    /\ PipeInit
    /\ PipeCreated
    /\ actions = <<>>
    /\ tplPieces = <<>>
    /\ trigger = None
    /\ result = NoResult
    /\ crashed = FALSE
    /\ rep = NoReplace

Next ==
    \/ WriterOpen
    \/ WriterConnect
    \/ \E l \in PipeLines : WriteLine(l)
    \/ WriterClose
    \/ listen
    \/ handle
    \/ Receive
    \/ ProcessExit

Spec == Init /\ [][Next]_vars

\* The listener and the consumer are threads the scheduler keeps running: a step of
\* theirs that stays possible is taken.
FairSpec == Init /\ [][Next]_vars /\ WF_vars(listen) /\ WF_vars(Receive)

----------------------------------------------------------------------------
(* Claims on the signal pipeline, under Spec *)

\* The texts of the Line signals among sigs, in order.
LinesOf(sigs) ==
    LET lines == SelectSeq(sigs, LAMBDA sig : sig.type = "Line")
    IN  [i \in 1..Len(lines) |-> lines[i].text]

\* The lines of text written so far, in order.
TextWritten == SelectSeq(written, LAMBDA l : l # InvalidUtf8)

IsPrefix(a, b) == Len(a) <= Len(b) /\ SubSeq(b, 1, Len(a)) = a

\* C4 as stated: the Line signals carry the written lines of text verbatim and in
\* the order written, none skipped, doubled or reordered, whatever interrupts come
\* between; the consumer gets them in that order; and once the listener has read
\* all that was written, every written line of text has been sent.
C4_LinesDelivered ==
    /\ IsPrefix(LinesOf(sent), TextWritten)
    /\ consumer = "running" => dispatched \o LinesOf(channel) = LinesOf(sent)
    /\ (listener # "Panicked" /\ pipeBuf = <<>> /\ bufReader = <<>>)
          => LinesOf(sent) = TextWritten

\* C10 as stated: every process interrupt leaves the handler in place, and while
\* the receiver is alive it appends one Exit to the channel and changes nothing
\* else in it.
C10_InterruptEnqueuesExit ==
    [][interrupts' # interrupts =>
          /\ handler' = "installed"
          /\ consumer = "running" =>
                (channel' = Append(channel, ExitSignal) /\ sent' = Append(sent, ExitSignal))
      ]_vars

----------------------------------------------------------------------------
(* SpecPipe: the lifecycle of the pipe file, Pipe::create, Pipe::delete and *)
(* Pipe::exists, on a directory that does not hold the pipe yet (a fresh    *)
(* tempdir in the tests) but may hold other files.                          *)

OtherFiles == {"Cargo.toml", "tertestrial.json", "src"}

\* self.filepath.exists()
exists == filepath \in dir

\* No step of the pipe's lifecycle touches the engine or the pipeline.
FsOnly == UNCHANGED <<actions, tplPieces, trigger, result, crashed, rep>> /\ UNCHANGED pipeVars

\* Mutant: create leaves a lock file next to the pipe.
create_with_lock ==
    /\ ~pipeFailed
    /\ Len(ops) < MaxOps
    /\ ops' = Append(ops, "create")
    /\ IF filepath \notin dir
       THEN dir' = dir \cup {filepath, "foo.pipe.lock"} /\ pipeFailed' = FALSE
       ELSE dir' = dir /\ pipeFailed' = TRUE
    /\ FsOnly

\* mkfifo(&self.filepath, S_IRWXU).expect("cannot create pipe"): mkfifo fails when
\* the path exists, and expect panics.
create ==
    /\ ~pipeFailed
    /\ Len(ops) < MaxOps
    /\ ops' = Append(ops, "create")
    /\ IF filepath \notin dir
       THEN dir' = dir \cup {filepath} /\ pipeFailed' = FALSE
       ELSE dir' = dir /\ pipeFailed' = TRUE
    /\ FsOnly

\* remove_file(&self.filepath).expect("cannot delete pipe"): remove_file fails when
\* the path does not exist, and expect panics.
delete ==
    /\ ~pipeFailed
    /\ Len(ops) < MaxOps
    /\ ops' = Append(ops, "delete")
    /\ IF filepath \in dir
       THEN dir' = dir \ {filepath} /\ pipeFailed' = FALSE
       ELSE dir' = dir /\ pipeFailed' = TRUE
    /\ FsOnly

InitPipe ==
    /\ dir \in SUBSET OtherFiles
    /\ ops = <<>>
    /\ pipeFailed = FALSE
    /\ PipeInit
    /\ actions = <<>>
    /\ tplPieces = <<>>
    /\ trigger = None
    /\ result = NoResult
    /\ crashed = FALSE
    /\ rep = NoReplace

NextPipe == create \/ delete

SpecPipe == InitPipe /\ [][NextPipe]_vars

----------------------------------------------------------------------------
(* Claim on the pipe's lifecycle, under SpecPipe *)

\* C13: as long as every create and delete was made where it is valid, exists() is
\* true exactly when the last of them was a create (false before the first create,
\* false after a delete), and a valid create adds the pipe file and nothing else to
\* the directory.
C13_PipeLifecycle ==
    /\ [](~pipeFailed => (exists <=> (ops # <<>> /\ ops[Len(ops)] = "create")))
    /\ [][(~pipeFailed' /\ Len(ops') > Len(ops) /\ ops'[Len(ops')] = "create")
              => (filepath \notin dir /\ dir' = dir \cup {filepath})
         ]_vars

\* The pipe was created, deleted and created again next to other files.
C13_Witness ==
    /\ ~pipeFailed
    /\ Len(ops) >= 3
    /\ ops[Len(ops)] = "create"
    /\ exists
    /\ dir # {filepath}

----------------------------------------------------------------------------
(* Claims on the consumer and the producers, under FairSpec *)

\* The signals of sigs in front of its first Exit.
BeforeFirstExit(sigs) ==
    LET exits == {i \in 1..Len(sigs) : sigs[i].type = "Exit"}
    IN  IF exits = {} THEN sigs ELSE SubSeq(sigs, 1, Min(exits) - 1)

Count(seq, x) == Len(SelectSeq(seq, LAMBDA e : e = x))

\* C11: the consumer stops on the first Exit it receives and on nothing else: while
\* it runs no Exit has left the channel, it leaves "running" only with an Exit at the
\* head of the channel, what it has dispatched are lines sent in front of the first
\* Exit, nothing is dispatched once it has stopped, and after an interrupt it
\* eventually stops.
C11_StopsOnFirstExit ==
    /\ [](consumer = "running" => Count(channel, ExitSignal) = Count(sent, ExitSignal))
    /\ [][/\ (consumer = "running" /\ consumer' # "running")
                => (channel # <<>> /\ Head(channel).type = "Exit")
          /\ IsPrefix(dispatched', LinesOf(BeforeFirstExit(sent')))
          /\ consumer # "running" => dispatched' = dispatched
         ]_vars
    /\ (interrupts > 0 ~> consumer # "running")

\* The consumer has stopped after an interrupt, it has dispatched a line, and a line
\* sent behind the Exit was never dispatched.
C11_Witness ==
    /\ consumer # "running"
    /\ interrupts > 0
    /\ dispatched # <<>>
    /\ Len(LinesOf(sent)) > Len(dispatched)

\* A read of the listener has failed: a line of invalid bytes that was written is no
\* longer waiting in the pipe or in the BufReader.
ReadErrors ==
    Count(written, InvalidUtf8) > Count(bufReader \o pipeBuf, InvalidUtf8)

OnlyLines(sigs) == \A i \in 1..Len(sigs) : sigs[i].type = "Line"

\* C12: an Exit is sent only as the response to an interrupt or to a read error:
\* as long as there has been no interrupt and no read error, every signal sent, and
\* so every signal in the channel, is a Line (also after an end of stream).
C12_ExitOnlyOnInterruptOrReadError ==
    (interrupts = 0 /\ ~ReadErrors) => (OnlyLines(sent) /\ OnlyLines(channel))

\* Lines have been written and sent in the first read cycle: no interrupt, no read
\* error and no end of stream so far, and two Lines wait in the channel.
C12_Witness ==
    /\ interrupts = 0
    /\ ~ReadErrors
    /\ Len(opens) = 1
    /\ listener = "Reading"
    /\ Len(channel) >= 2

\* The step ends a read cycle of the listener by a read error.
EndsByReadError ==
    /\ listener = "Reading"
    /\ listener' # "Reading"
    /\ Fetched # <<>>
    /\ Head(Fetched) = InvalidUtf8

\* The step ends a read cycle of the listener by the end of the stream.
EndsByEndOfStream ==
    /\ listener = "Reading"
    /\ listener' # "Reading"
    /\ Fetched = <<>>

C15_ListenerKeepsReopening ==
    /\ [](consumer = "running" => listener \in {"Opening", "Reading"})
    /\ ((listener = "Opening" /\ writer = "opening") ~> (listener = "Reading" \/ ~Alive))

\* No read has failed, the pipe has been opened a second time, and a line written
\* after that second open has been sent: it comes from a writer that connected after
\* the first read cycle was exhausted.
C15_Witness ==
    /\ ~ReadErrors
    /\ consumer = "running"
    /\ Len(opens) >= 2
    /\ Len(LinesOf(sent)) > opens[2]

\* C16 as stated: no producer ever panics because of a failed send.
C16_NoProducerPanics ==
    listener # "Panicked" /\ handler # "panicked"

\* The sent signals hold a Line behind an Exit.
LineBehindExit(sigs) ==
    \E i, j \in 1..Len(sigs) : i < j /\ sigs[i].type = "Exit" /\ sigs[j].type = "Line"

\* C19: a read error whose Exit was sent leaves the listener opening the pipe again;
\* after a read error, with a writer at the pipe, the listener gets to read again
\* (unless that writer leaves or the process exits first); and a text line the
\* listener reads while the consumer runs is appended to the channel whatever Exits
\* the channel holds.
C19_ListenerOutlivesItsExit ==
    /\ [][/\ (EndsByReadError /\ consumer = "running") => listener' = "Opening"
          /\ (/\ listener = "Reading"
              /\ consumer = "running"
              /\ Fetched # <<>>
              /\ Head(Fetched) # InvalidUtf8
              /\ bufReader' = Tail(Fetched)
              /\ pipeBuf' = PipeAfterFetch)
                => channel' = Append(channel, LineSignal(Head(Fetched)))
         ]_vars
    /\ ((ReadErrors /\ listener = "Opening" /\ writer # "idle")
            ~> (listener = "Reading" \/ writer = "idle" \/ ~Alive))

\* Without any interrupt, the channel holds a Line behind an Exit: the Exit is the
\* listener's, and the Line was read after the pipe had been opened again.
C19_Witness ==
    /\ interrupts = 0
    /\ consumer = "running"
    /\ LineBehindExit(channel)

----------------------------------------------------------------------------
(* SpecScan: get_command on rule tables in which an action's variables or   *)
(* its match test can fail in front of actions that match.                  *)

ScanPatterns ==
    {Trigger(s_testFunction, f, None) : f \in {None, Some(s_filename), Some(s_unclosed)}}
ScanQueries ==
    {Trigger(s_testFunction, f, l) : f \in {None, Some(s_filename)}, l \in {None, Some(2)}}

\* Every pattern with its labelled run, and the patterns the match test can evaluate
\* also with the var whose filter has two capture groups.
ScanUniverse ==
    {Action(t, RunOf(t), Some(<<>>)) : t \in ScanPatterns}
        \cup {Action(t, r_name, TwoGroupVars) :
                 t \in {p \in ScanPatterns : p.file # Some(s_unclosed)}}

InitScan ==
    /\ actions \in SeqsUpTo(ScanUniverse, MaxActions)
    /\ tplPieces = <<>>
    /\ trigger = None
    /\ result = NoResult
    /\ crashed = FALSE
    /\ rep = NoReplace
    /\ PipeInit
    /\ PipeCreated

NextScan == trigger = None /\ \E q \in ScanQueries : Resolve(q)

SpecScan == InitScan /\ [][NextScan]_vars

----------------------------------------------------------------------------
(* Claim on get_command, under SpecScan *)

\* The actions whose match test returns an error.
Unmatchable(as, q) ==
    {i \in 1..Len(as) : matches_client_trigger(as[i].trigger, q).err # None}

\* What evaluating the action's variables for the query runs into: None, or the
\* failure.
VarFailure(action, q) == InsertVars(VarsOf(action), TriggerValues(q)).failed

\* C17: get_command commits to the first action that matches or whose match test
\* fails.  When that action matches and evaluating one of its variables fails, the
\* result is that failure, also when a later action matches and would give a
\* command; when its match test returns an error, the result is that error, also
\* when a later action matches.
C17_CommitsToFirstMatch ==
    trigger # None =>
        LET q == trigger[1]
            m == Matching(actions, q)
            u == Unmatchable(actions, q)
        IN  (m \cup u # {}) =>
               LET first == Min(m \cup u) IN
               /\ (first \in m /\ VarFailure(actions[first], q) # None)
                     => result = VarFailure(actions[first], q)[1]
               /\ first \in u
                     => result = matches_client_trigger(actions[first].trigger, q).err[1]

\* The first matching action's variable fails with an error, which is returned,
\* and a later action matches and gives a command.
C17_Witness ==
    /\ trigger # None
    /\ result.kind = "Err"
    /\ LET q == trigger[1]
           m == Matching(actions, q)
       IN  /\ m # {}
           /\ Unmatchable(actions, q) = {}
           /\ VarFailure(actions[Min(m)], q) = Some(result)
           /\ \E j \in m : j > Min(m) /\ \A r \in format_run(actions[j], q) : r.kind = "Ok"

============================================================================
